---- MODULE Spec2Model ----
(***************************************************************************)
(* A model of the Kundali generator (src/app.py): the script's start-up,   *)
(* one run of main() per script execution, the position engine             *)
(* (get_planet_positions), the ascendant engine (calculate_ascendants),    *)
(* the yoga rule table (calculate_yogas) and the hand-over to the chart    *)
(* renderer (plot_kundli).                                                 *)
(*                                                                         *)
(* Angles are integers in millidegrees (UnitsPerTurn to the full circle of *)
(* 2*pi radians), recorded degrees are integers in hundredths of a degree, *)
(* dates are whole days and times whole hours.  What the ephem library     *)
(* computes is not part of the repository: a body's right ascension is a   *)
(* choice from a set of angles, and the constellation looked up for a body *)
(* is kept as the term naming the lookup (body, instant, observer).        *)
(***************************************************************************)
EXTENDS Integers, Sequences, FiniteSets

\* ---------------------------------------------------------------- bounds

\* Birth dates offered by the date widget: days 0..MaxDay after a reference day.
MaxDay == 1

\* Birth times offered by the time widget: hours 0..MaxHour.
MaxHour == 2

\* Angles tried around each house boundary, on either side (SpecHouse).
EdgeWidth == 8

\* ------------------------------------------------------------- constants

\* One full circle, 2*pi radians, in millidegrees.
UnitsPerTurn == 360000

\* The number of houses (sectors of the circle).
NumHouses == 12

\* Iterations of the ascendant loop, range(12).
AscSteps == 12

\* Hours by which the ascendant loop advances its clock, ephem.hour * 2.
AscAdvance == 2

\* Python's None, and a value that is present: <<>> and <<v>>.
None == <<>>

Some(v) == <<v>>

Val(o) == o[1]

Bodies == {"Sun", "Moon", "Mars", "Mercury", "Jupiter", "Venus", "Saturn", "Rahu", "Ketu"}

\* The insertion order of the planets dict, which planets.items() follows.
BodyOrder == <<"Sun", "Moon", "Mars", "Mercury", "Jupiter", "Venus", "Saturn", "Rahu", "Ketu">>

MissingKeyMsg == "OpenCage API Key is missing. Please check your .env file."

LocationMsg == "Unable to fetch latitude and longitude. Check city and state input."

RajaMsg == "Raja Yoga: Jupiter in the 9th house indicates good fortune and success."

DhanaMsg == "Dhana Yoga: Venus in the 7th house signifies wealth and good relationships."

KarmaMsg == "Karma Yoga: Saturn in the 10th house indicates discipline and career growth."

NoYogaMsg == "No significant yogas identified."

\* --------------------------------------------------------------- helpers

Range(s) == {s[k] : k \in 1..Len(s)}

\* KeyMissing with the test `OPENCAGE_API_KEY is None` in place of `not`.
KeyMissingNoneOnly(key) == key = "unset"

\* Python's `not OPENCAGE_API_KEY`: an unset variable (None) and "" are both falsy.
KeyMissing(key) == key \in {"unset", "empty"}

\* What the geocoder can answer: no result, or a list whose first entry carries
\* the geometry.  Latitude 0 is a real latitude and not the absence of one.
GeocodeResults ==
    { <<>>,
      << [lat |-> 0, lng |-> 0] >>,
      << [lat |-> 28, lng |-> 77] >> }

\* Python dict assignment d[k] = v on a dict kept as a sequence of <<key, value>>
\* in insertion order: an existing key keeps its place, a new key is appended.
DictSet(d, k, v) ==
    IF \E j \in 1..Len(d) : d[j][1] = k
    THEN [j \in 1..Len(d) |-> IF d[j][1] = k THEN <<k, v>> ELSE d[j]]
    ELSE Append(d, <<k, v>>)

\* obs.date = f"{date} {time}": the date and the time formatted into one string
\* and parsed by ephem into one instant, here in hours.
ObsDate(date, time) == date * 24 + time

\* ephem.constellation(body)[1] after body.compute(o): the library's lookup,
\* kept as the term that names it.
Constellation(body, o) == [of |-> body, at |-> o.date, lat |-> o.lat, lon |-> o.lon]

\* ------------------------------------------------------------ the program

VARIABLES
    apiKey,            \* environment: OPENCAGE_API_KEY is "unset", "empty" or "set"
    ephemHasPlanet,    \* environment: whether the ephem module has an attribute `planet`
    pc,                \* where the script is
    geocoder,          \* whether the geocoding client has been constructed
    errors,            \* the st.error messages shown in this run
    calls,             \* the functions invoked in this run, in order
    dob, tob,          \* main's date and time of birth (the caller's context)
    results,           \* what geocoder.geocode answered (None before the query)
    lat, lon,          \* main's latitude and longitude
    raised,            \* the exception that ended the run, or None
    planet_positions,  \* get_planet_positions' dict, then main's
    ra,                \* body.ra of the body being placed (SpecHouse)
    house_number,      \* get_planet_positions' house_number (SpecHouse)
    obs,               \* calculate_ascendants' observer (its private clock)
    ascendants,        \* calculate_ascendants' dict, then main's
    i,                 \* calculate_ascendants' loop counter
    yogas,             \* calculate_yogas' result
    rendered           \* what plot_kundli was given to draw, or None

vars == << apiKey, ephemHasPlanet, pc, geocoder, errors, calls, dob, tob, results,
           lat, lon, raised, planet_positions, ra, house_number, obs, ascendants,
           i, yogas, rendered >>

envVars == << apiKey, ephemHasPlanet >>

\* The script's state as a fresh execution finds it.
Fresh ==
    /\ pc = "startup"
    /\ geocoder = FALSE
    /\ errors = <<>>
    /\ calls = <<>>
    /\ dob = None
    /\ tob = None
    /\ results = None
    /\ lat = None
    /\ lon = None
    /\ raised = None
    /\ planet_positions = <<>>
    /\ ra = None
    /\ house_number = None
    /\ obs = None
    /\ ascendants = <<>>
    /\ i = 0
    /\ yogas = None
    /\ rendered = None

Init ==
    /\ apiKey \in {"unset", "empty", "set"}
    /\ ephemHasPlanet \in BOOLEAN
    /\ Fresh

\* ------------------------------------------------------ module start-up

\* Lines 11-18: without a key the script shows the error and st.stop() ends the
\* run; with one it constructs the geocoding client and goes on to main().
Startup ==
    /\ pc = "startup"
    /\ IF KeyMissing(apiKey)
       THEN /\ errors' = Append(errors, MissingKeyMsg)
            /\ pc' = "stopped"
            /\ UNCHANGED geocoder
       ELSE /\ geocoder' = TRUE
            /\ pc' = "main"
            /\ UNCHANGED errors
    /\ UNCHANGED << envVars, calls, dob, tob, results, lat, lon, raised,
                    planet_positions, ra, house_number, obs, ascendants, i,
                    yogas, rendered >>

\* ------------------------------------------------------------- main()

\* get_lat_long answering an empty result with the origin instead of (None, None).
get_lat_longZero(res) ==
    IF res # <<>>
    THEN << Some(res[1].lat), Some(res[1].lng) >>
    ELSE << Some(0), Some(0) >>

\* get_lat_long: the first result's geometry, or (None, None) when there is none.
get_lat_long(res) ==
    IF res # <<>>
    THEN << Some(res[1].lat), Some(res[1].lng) >>
    ELSE << None, None >>

\* validate_datetime: combine() accepts every date and time the widgets hand
\* over; main() never calls this function.
validate_datetime(date, time) == date \in Nat /\ time \in 0..23

\* Lines 156-163 with the button not pressed: the widgets are drawn and main returns.
MainIdle ==
    /\ pc = "main"
    /\ \E d \in 0..MaxDay, t \in 0..MaxHour :
          /\ dob' = Some(d)
          /\ tob' = Some(t)
    /\ pc' = "done"
    /\ UNCHANGED << envVars, geocoder, errors, calls, results, lat, lon, raised,
                    planet_positions, ra, house_number, obs, ascendants, i,
                    yogas, rendered >>

\* Lines 156-167 with the button pressed and the lookup answering: main reads
\* the widgets, calls get_lat_long and returns with an error when lat is None.
MainLookup ==
    /\ pc = "main"
    /\ \E d \in 0..MaxDay, t \in 0..MaxHour :
          /\ dob' = Some(d)
          /\ tob' = Some(t)
    /\ calls' = Append(calls, "get_lat_long")
    /\ \E res \in GeocodeResults :
          /\ results' = Some(res)
          /\ lat' = get_lat_long(res)[1]
          /\ lon' = get_lat_long(res)[2]
    /\ IF lat' = None
       THEN /\ errors' = Append(errors, LocationMsg)
            /\ pc' = "done"
       ELSE /\ pc' = "positions"
            /\ UNCHANGED errors
    /\ UNCHANGED << envVars, geocoder, raised, planet_positions, ra, house_number,
                    obs, ascendants, i, yogas, rendered >>

\* Lines 164 and 23 with the lookup failing in transport: geocode() raises and
\* nothing in the script catches it.
MainLookupFails ==
    /\ pc = "main"
    /\ \E d \in 0..MaxDay, t \in 0..MaxHour :
          /\ dob' = Some(d)
          /\ tob' = Some(t)
    /\ calls' = Append(calls, "get_lat_long")
    /\ raised' = Some("geocode transport error")
    /\ pc' = "crashed"
    /\ UNCHANGED << envVars, geocoder, errors, results, lat, lon, planet_positions,
                    ra, house_number, obs, ascendants, i, yogas, rendered >>

\* ------------------------------------------------ get_planet_positions

\* A body's right ascension as body.compute(obs) leaves it in the running
\* application: an angle in [0, 2*pi), here one at the start of the circle and
\* one within half a hundredth of a degree of its end.
RaSamples == {0, UnitsPerTurn - 4}

\* Lines 54-56 and 74-76: an observer at the given place and instant.
Observer(date, time, la, lo) == [lat |-> la, lon |-> lo, date |-> ObsDate(date, time)]

\* Line 61: int((body.ra / (2 * ephem.pi)) * 12) + 1, int() cutting the fraction.
HouseRaw(a) == (a * NumHouses) \div UnitsPerTurn + 1

\* WrapHouse with the comparison `<` in place of `<=`.
WrapHouseOffByOne(h) == IF h < NumHouses THEN h ELSE h - NumHouses

\* Line 62: house_number if house_number <= 12 else house_number - 12.
WrapHouse(h) == IF h <= NumHouses THEN h ELSE h - NumHouses

\* Python's round() of n/d to an integer: to the nearest, a tie to the even one.
RoundHalfEven(n, d) ==
    LET q == n \div d
        r == n % d
    IN  IF 2 * r < d THEN q
        ELSE IF 2 * r > d THEN q + 1
        ELSE IF q % 2 = 0 THEN q ELSE q + 1

\* Line 67: round(body.ra * (180 / ephem.pi), 2), in hundredths of a degree.
Degrees(a) == RoundHalfEven(a, 10)

\* The body the loop of line 59 is at: planets.items() in insertion order.
CurrentBody == BodyOrder[Cardinality(DOMAIN planet_positions) + 1]

\* Lines 42-58: the planets dict, the observer and the empty result.  The dict's
\* last two entries call ephem.planet, which raises AttributeError when the
\* installed ephem module defines no such attribute.
GppPlanets ==
    /\ pc = "positions"
    /\ calls' = Append(calls, "get_planet_positions")
    /\ IF ephemHasPlanet
       THEN /\ planet_positions' = <<>>
            /\ pc' = "gpp_loop"
            /\ UNCHANGED raised
       ELSE /\ raised' = Some("AttributeError")
            /\ pc' = "crashed"
            /\ UNCHANGED planet_positions
    /\ UNCHANGED << envVars, geocoder, errors, dob, tob, results, lat, lon, ra,
                    house_number, obs, ascendants, i, yogas, rendered >>

\* Lines 59-60: the next body is computed for the observer.
GppCompute ==
    /\ pc = "gpp_loop"
    /\ Cardinality(DOMAIN planet_positions) < Len(BodyOrder)
    /\ \E a \in RaSamples : ra' = Some(a)
    /\ pc' = "gpp_house"
    /\ UNCHANGED << envVars, geocoder, errors, calls, dob, tob, results, lat, lon,
                    raised, planet_positions, house_number, obs, ascendants, i,
                    yogas, rendered >>

\* Line 61.
GppHouse ==
    /\ pc = "gpp_house"
    /\ house_number' = Some(HouseRaw(Val(ra)))
    /\ pc' = "gpp_wrap"
    /\ UNCHANGED << envVars, geocoder, errors, calls, dob, tob, results, lat, lon,
                    raised, planet_positions, ra, obs, ascendants, i, yogas,
                    rendered >>

\* Line 62.
GppWrap ==
    /\ pc = "gpp_wrap"
    /\ house_number' = Some(WrapHouse(Val(house_number)))
    /\ pc' = "gpp_record"
    /\ UNCHANGED << envVars, geocoder, errors, calls, dob, tob, results, lat, lon,
                    raised, planet_positions, ra, obs, ascendants, i, yogas,
                    rendered >>

\* Lines 63-68: the body's entry is stored under its name.
GppRecord ==
    /\ pc = "gpp_record"
    /\ LET name == CurrentBody
           o == Observer(Val(dob), Val(tob), Val(lat), Val(lon))
           entry == [house |-> Val(house_number),
                     nakshatra |-> Constellation(name, o),
                     degrees |-> Degrees(Val(ra))]
       IN  planet_positions' =
               [b \in DOMAIN planet_positions \cup {name} |->
                   IF b = name THEN entry ELSE planet_positions[b]]
    /\ pc' = "gpp_loop"
    /\ UNCHANGED << envVars, geocoder, errors, calls, dob, tob, results, lat, lon,
                    raised, ra, house_number, obs, ascendants, i, yogas, rendered >>

\* Line 70, and line 169 taking the result.
GppReturn ==
    /\ pc = "gpp_loop"
    /\ Cardinality(DOMAIN planet_positions) = Len(BodyOrder)
    /\ pc' = "ascendants"
    /\ UNCHANGED << envVars, geocoder, errors, calls, dob, tob, results, lat, lon,
                    raised, planet_positions, ra, house_number, obs, ascendants,
                    i, yogas, rendered >>

\* ------------------------------------------------ calculate_ascendants

\* Lines 74-78: the engine's own observer, set to the caller's place and instant.
AscInit ==
    /\ pc = "ascendants"
    /\ calls' = Append(calls, "calculate_ascendants")
    /\ obs' = Some(Observer(Val(dob), Val(tob), Val(lat), Val(lon)))
    /\ ascendants' = <<>>
    /\ i' = 0
    /\ pc' = "asc_loop"
    /\ UNCHANGED << envVars, geocoder, errors, dob, tob, results, lat, lon, raised,
                    planet_positions, ra, house_number, yogas, rendered >>

\* AscStep with the clock advanced before the sign is taken.
AscStepAdvanceFirst ==
    /\ pc = "asc_loop"
    /\ i < AscSteps
    /\ obs' = Some([Val(obs) EXCEPT !.date = @ + AscAdvance])
    /\ ascendants' = DictSet(ascendants, i + 1, Constellation("Sun", Val(obs')))
    /\ i' = i + 1
    /\ UNCHANGED << envVars, pc, geocoder, errors, calls, dob, tob, results, lat,
                    lon, raised, planet_positions, ra, house_number, yogas,
                    rendered >>

\* AscStep advancing the caller's time of birth along with its own clock.
AscStepMovesCaller ==
    /\ pc = "asc_loop"
    /\ i < AscSteps
    /\ ascendants' = DictSet(ascendants, i + 1, Constellation("Sun", Val(obs)))
    /\ obs' = Some([Val(obs) EXCEPT !.date = @ + AscAdvance])
    /\ tob' = Some(Val(tob) + AscAdvance)
    /\ i' = i + 1
    /\ UNCHANGED << envVars, pc, geocoder, errors, calls, dob, results, lat, lon,
                    raised, planet_positions, ra, house_number, yogas, rendered >>

\* Lines 79-84, one iteration: the Sun's sign at the observer's clock is stored
\* under i + 1, then the clock moves on by two hours.
AscStep ==
    /\ pc = "asc_loop"
    /\ i < AscSteps
    /\ ascendants' = DictSet(ascendants, i + 1, Constellation("Sun", Val(obs)))
    /\ obs' = Some([Val(obs) EXCEPT !.date = @ + AscAdvance])
    /\ i' = i + 1
    /\ UNCHANGED << envVars, pc, geocoder, errors, calls, dob, tob, results, lat,
                    lon, raised, planet_positions, ra, house_number, yogas,
                    rendered >>

\* Line 86, and line 170 taking the result.
AscReturn ==
    /\ pc = "asc_loop"
    /\ i = AscSteps
    /\ pc' = "plot"
    /\ UNCHANGED << envVars, geocoder, errors, calls, dob, tob, results, lat, lon,
                    raised, planet_positions, ra, house_number, obs, ascendants,
                    i, yogas, rendered >>

\* ---------------------------------------------------------- plot_kundli

\* Line 171: plot_kundli({}, {}, ascendants) draws the chart and main returns.
Plot ==
    /\ pc = "plot"
    /\ calls' = Append(calls, "plot_kundli")
    /\ rendered' = Some([house_labels |-> <<>>, planets_in_houses |-> <<>>,
                         ascendants |-> ascendants])
    /\ pc' = "done"
    /\ UNCHANGED << envVars, geocoder, errors, dob, tob, results, lat, lon, raised,
                    planet_positions, ra, house_number, obs, ascendants, i, yogas >>

\* The next interaction: the script is executed again from its first line.
Rerun ==
    /\ pc \in {"done", "stopped", "crashed"}
    /\ pc' = "startup"
    /\ geocoder' = FALSE
    /\ errors' = <<>>
    /\ calls' = <<>>
    /\ dob' = None
    /\ tob' = None
    /\ results' = None
    /\ lat' = None
    /\ lon' = None
    /\ raised' = None
    /\ planet_positions' = <<>>
    /\ ra' = None
    /\ house_number' = None
    /\ obs' = None
    /\ ascendants' = <<>>
    /\ i' = 0
    /\ yogas' = None
    /\ rendered' = None
    /\ UNCHANGED envVars

Next ==
    \/ Startup
    \/ MainIdle
    \/ MainLookup
    \/ MainLookupFails
    \/ GppPlanets
    \/ GppCompute
    \/ GppHouse
    \/ GppWrap
    \/ GppRecord
    \/ GppReturn
    \/ AscInit
    \/ AscStep
    \/ AscReturn
    \/ Plot
    \/ Rerun

Spec == Init /\ [][Next]_vars

\* ------------------------------------- the house and degree of one body

\* The angles body.ra is tried at: EdgeWidth millidegree steps on either side
\* of each of the twelve house boundaries, the end of the circle included (the
\* value a reduction of an angle into the circle can return in floating point,
\* and the one line 62 is written for).
AngleSamples ==
    {s * (UnitsPerTurn \div NumHouses) + d : s \in 0..(NumHouses - 1), d \in 0..(EdgeWidth - 1)}
    \cup
    {s * (UnitsPerTurn \div NumHouses) - d : s \in 1..NumHouses, d \in 0..EdgeWidth}

\* main() as it stands once the lookup has answered and get_planet_positions
\* has built its planets, its observer and its empty result.
InPositionLoop ==
    /\ apiKey = "set"
    /\ ephemHasPlanet = TRUE
    /\ geocoder = TRUE
    /\ errors = <<>>
    /\ calls = <<"get_lat_long", "get_planet_positions">>
    /\ dob = Some(0)
    /\ tob = Some(0)
    /\ results = Some(<< [lat |-> 0, lng |-> 0] >>)
    /\ lat = Some(0)
    /\ lon = Some(0)
    /\ raised = None
    /\ obs = None
    /\ ascendants = <<>>
    /\ i = 0
    /\ yogas = None
    /\ rendered = None

\* The first body computed, at any of the sampled angles.
HouseInit ==
    /\ InPositionLoop
    /\ pc = "gpp_house"
    /\ planet_positions = <<>>
    /\ ra \in {Some(a) : a \in AngleSamples}
    /\ house_number = None

HouseNext ==
    \/ GppHouse
    \/ GppWrap
    \/ GppRecord

SpecHouse == HouseInit /\ [][HouseNext]_vars

\* -------------------------------------------------------- calculate_yogas

\* calculate_yogas without the fallback of lines 97-98.
calculate_yogasNoFallback(pp) ==
    LET y1 == IF pp["Jupiter"].house = 9 THEN <<RajaMsg>> ELSE <<>>
        y2 == IF pp["Venus"].house = 7 THEN Append(y1, DhanaMsg) ELSE y1
        y3 == IF pp["Saturn"].house = 10 THEN Append(y2, KarmaMsg) ELSE y2
    IN  y3

\* Lines 89-99: the three rules in order, and the fallback when none fired.
calculate_yogas(pp) ==
    LET y1 == IF pp["Jupiter"].house = 9 THEN <<RajaMsg>> ELSE <<>>
        y2 == IF pp["Venus"].house = 7 THEN Append(y1, DhanaMsg) ELSE y1
        y3 == IF pp["Saturn"].house = 10 THEN Append(y2, KarmaMsg) ELSE y2
    IN  IF y3 = <<>> THEN Append(y3, NoYogaMsg) ELSE y3

\* The entry get_planet_positions records for a body at the start of house h.
EntryInHouse(b, h) ==
    LET a == (h - 1) * (UnitsPerTurn \div NumHouses)
    IN  [house |-> WrapHouse(HouseRaw(a)),
         nakshatra |-> Constellation(b, Observer(0, 0, 0, 0)),
         degrees |-> Degrees(a)]

\* The positions calculate_yogas is applied to: every placement of Jupiter,
\* Venus and Saturn in the twelve houses, the other bodies in the first.
YogaInit ==
    /\ InPositionLoop
    /\ pc = "yogas"
    /\ ra = None
    /\ house_number = None
    /\ \E j \in 1..NumHouses, v \in 1..NumHouses, t \in 1..NumHouses :
          planet_positions =
              [b \in Bodies |->
                  EntryInHouse(b, CASE b = "Jupiter" -> j
                                    [] b = "Venus" -> v
                                    [] b = "Saturn" -> t
                                    [] OTHER -> 1)]

CalculateYogas ==
    /\ pc = "yogas"
    /\ yogas' = Some(calculate_yogas(planet_positions))
    /\ pc' = "yogas_done"
    /\ UNCHANGED << envVars, geocoder, errors, calls, dob, tob, results, lat, lon,
                    raised, planet_positions, ra, house_number, obs, ascendants,
                    i, rendered >>

YogaNext == CalculateYogas

SpecYogas == YogaInit /\ [][YogaNext]_vars

\* ------------------------------------------------------------ properties

\* get_planet_positions has been called in this run and is no longer running.
GppEnded ==
    /\ "get_planet_positions" \in Range(calls)
    /\ pc \notin {"gpp_loop", "gpp_house", "gpp_wrap", "gpp_record"}

\* calculate_ascendants has been called in this run and has returned.
AscReturned ==
    /\ "calculate_ascendants" \in Range(calls)
    /\ pc \in {"plot", "done"}

\* a is invoked before b in this run's calls.
CalledBefore(a, b) ==
    \E m \in 1..Len(calls), n \in 1..Len(calls) :
        m < n /\ calls[m] = a /\ calls[n] = b

\* C1: for every valid observation context get_planet_positions returns exactly
\* nine entries, one for each tracked body, every house an integer in 1..12.
C1_NinePositionsReturned ==
    GppEnded =>
        /\ raised = None
        /\ DOMAIN planet_positions = Bodies
        /\ \A b \in Bodies : planet_positions[b].house \in 1..12

\* C2: for every body angle in [0, 2*pi) the recorded degree value (rounded to
\* two decimals) lies in [0, 360): it is never 360.00.
C2_DegreesBelow360 ==
    (pc = "gpp_loop" /\ ra # None /\ Val(ra) < UnitsPerTurn) =>
        \A b \in DOMAIN planet_positions :
            planet_positions[b].degrees \in 0..35999

\* C3: the normalisation of line 62 maps a raw house of 13 to 1 and leaves every
\* raw house in 1..12 as it is; the raw house is floor(angle / 2pi * 12) + 1, its
\* floor term is in 0..11 for every angle in [0, 2*pi), and 13 is the only raw
\* value outside 1..12 that occurs at all.
C3_HouseNormalised ==
    /\ pc = "gpp_wrap" =>
          LET a == Val(ra)
              raw == Val(house_number)
          IN  /\ (raw - 1) * UnitsPerTurn <= a * 12
              /\ a * 12 < raw * UnitsPerTurn
              /\ raw \in 1..13
              /\ a < UnitsPerTurn => (raw - 1) \in 0..11
    /\ pc = "gpp_record" =>
          LET a == Val(ra)
              raw == CHOOSE r \in 1..13 :
                        (r - 1) * UnitsPerTurn <= a * 12 /\ a * 12 < r * UnitsPerTurn
          IN  /\ raw = 13 => Val(house_number) = 1
              /\ raw \in 1..12 => Val(house_number) = raw

\* A raw house of 13 has been normalised to 1.
C3_Witness ==
    /\ pc = "gpp_record"
    /\ Val(ra) = UnitsPerTurn
    /\ Val(house_number) = 1

\* C4: calculate_ascendants returns exactly the keys 1..12 in that order, the
\* value under key k being the Sun's sign at the input time plus 2*(k-1) hours;
\* in the loop the clock is the input time plus two hours per sign recorded, so
\* it is advanced only after each sign is taken.
C4_AscendantMap ==
    LET t0 == Val(dob) * 24 + Val(tob)
        SunAt(t) == [of |-> "Sun", at |-> t, lat |-> Val(lat), lon |-> Val(lon)]
    IN  /\ pc = "asc_loop" =>
              /\ Len(ascendants) = i
              /\ Val(obs).date = t0 + 2 * i
              /\ \A k \in 1..Len(ascendants) :
                    ascendants[k] = << k, SunAt(t0 + 2 * (k - 1)) >>
        /\ AscReturned =>
              /\ Len(ascendants) = 12
              /\ \A k \in 1..12 :
                    ascendants[k] = << k, SunAt(t0 + 2 * (k - 1)) >>

\* calculate_ascendants has returned its twelve entries for a birth time other
\* than the first hour of the first day.
C4_Witness ==
    /\ pc = "plot"
    /\ Len(ascendants) = 12
    /\ Val(dob) * 24 + Val(tob) > 0
    /\ ascendants[2][2].at = Val(dob) * 24 + Val(tob) + 2

\* C5: calculate_ascendants leaves the caller's context as it found it: from the
\* call, through every iteration of its loop and to the hand-over of the result,
\* no step changes the caller's date, time, latitude or longitude.
C5_ContextUnchanged ==
    [][ (pc \in {"ascendants", "asc_loop", "plot"}) =>
            (dob' = dob /\ tob' = tob /\ lat' = lat /\ lon' = lon) ]_vars

\* The engine's own clock has advanced through all twelve steps while the
\* caller's context still holds the time it was given.
C5_Witness ==
    /\ pc = "asc_loop"
    /\ i = AscSteps
    /\ Val(obs).date = ObsDate(Val(dob), Val(tob)) + 24
    /\ Val(obs).lat = Val(lat)
    /\ Val(obs).lon = Val(lon)

\* The rule table: what calculate_yogas is to return for each combination of
\* Jupiter in 9 (j), Venus in 7 (v), Saturn in 10 (t).
YogaTable(j, v, t) ==
    CASE  j /\  v /\  t -> << RajaMsg, DhanaMsg, KarmaMsg >>
      []  j /\  v /\ ~t -> << RajaMsg, DhanaMsg >>
      []  j /\ ~v /\  t -> << RajaMsg, KarmaMsg >>
      []  j /\ ~v /\ ~t -> << RajaMsg >>
      [] ~j /\  v /\  t -> << DhanaMsg, KarmaMsg >>
      [] ~j /\  v /\ ~t -> << DhanaMsg >>
      [] ~j /\ ~v /\  t -> << KarmaMsg >>
      [] ~j /\ ~v /\ ~t -> << NoYogaMsg >>

\* C6: for every placement of Jupiter, Venus and Saturn in houses 1..12,
\* calculate_yogas returns exactly what the rule table gives: the Raja, Dhana and
\* Karma messages in that order for the rules that fire, and the single fallback
\* message when none does; the result is never empty.
C6_YogaRuleTable ==
    pc = "yogas_done" =>
        /\ Val(yogas) = YogaTable(planet_positions["Jupiter"].house = 9,
                                  planet_positions["Venus"].house = 7,
                                  planet_positions["Saturn"].house = 10)
        /\ Len(Val(yogas)) >= 1
        /\ planet_positions["Jupiter"].house = 9 => RajaMsg \in Range(Val(yogas))

\* No rule fires and the one fallback message is returned.
C6_Witness ==
    /\ pc = "yogas_done"
    /\ planet_positions["Jupiter"].house = 8
    /\ planet_positions["Venus"].house = 8
    /\ planet_positions["Saturn"].house = 9
    /\ Val(yogas) = << NoYogaMsg >>

\* C7: when no API key is configured the run ends at the error shown at
\* start-up: the geocoder is never constructed or queried, no engine is invoked
\* and no chart is rendered.
C7_MissingKeyHalts ==
    apiKey # "set" =>
        /\ pc \in {"startup", "stopped"}
        /\ geocoder = FALSE
        /\ results = None
        /\ calls = <<>>
        /\ planet_positions = <<>>
        /\ ascendants = <<>>
        /\ rendered = None
        /\ pc = "stopped" => errors = << MissingKeyMsg >>

\* The script has stopped on a key that is set to the empty string.
C7_Witness ==
    /\ apiKey = "empty"
    /\ pc = "stopped"
    /\ errors = << MissingKeyMsg >>

\* C8: when the lookup returns no result, get_lat_long yields (None, None), the
\* request reports the error and ends, and in that run neither engine is invoked
\* and no chart is rendered.
C8_NotFoundEndsRequest ==
    results = Some(<<>>) =>
        /\ lat = None
        /\ lon = None
        /\ pc = "done"
        /\ raised = None
        /\ errors = << LocationMsg >>
        /\ calls = << "get_lat_long" >>
        /\ planet_positions = <<>>
        /\ ascendants = <<>>
        /\ rendered = None

\* A lookup has come back empty and the request has ended.
C8_Witness ==
    /\ results = Some(<<>>)
    /\ pc = "done"
    /\ lat = None

\* C9: in every chart request the date and time are validated before any
\* astronomical computation: neither engine is invoked in a run in which
\* validate_datetime has not been called first.
C9_ValidatedBeforeCompute ==
    \A f \in {"get_planet_positions", "calculate_ascendants"} :
        f \in Range(calls) => CalledBefore("validate_datetime", f)

\* C10: a chart is rendered only after context build, position computation,
\* ascendant computation and interpretation (yogas, dasha, gemstones) have all
\* completed, in that order.
C10_FullPipelineBeforeRender ==
    rendered # None =>
        /\ CalledBefore("get_lat_long", "get_planet_positions")
        /\ CalledBefore("get_planet_positions", "calculate_ascendants")
        /\ CalledBefore("calculate_ascendants", "calculate_yogas")
        /\ CalledBefore("calculate_yogas", "plot_kundli")
        /\ CalledBefore("calculate_ascendants", "calculate_dasha")
        /\ CalledBefore("calculate_dasha", "plot_kundli")
        /\ CalledBefore("calculate_ascendants", "suggest_gemstones")
        /\ CalledBefore("suggest_gemstones", "plot_kundli")

====
